---- MODULE Spec2Model ----
(***************************************************************************)
(* Model of the Proteus gripper tele-operation core                        *)
(* (software/teleop_nonhaptic_filtered.py, class MotorControlApp).         *)
(*                                                                         *)
(* Two threads share the fields of MotorControlApp: the Tk thread runs the *)
(* button handlers (start_control, stop_control, update_alpha, quit_app),  *)
(* each to completion; the asyncio thread runs the coroutines              *)
(* monitor_motors, motor_control, home_trigger and home_gripper on         *)
(* self.loop.  A coroutine runs without interruption by another coroutine  *)
(* from the point where an await returns to the point where it suspends on *)
(* the next await, so one step of a coroutine is: take the outcome of the  *)
(* await it is suspended on (a result or an exception), run the code up to *)
(* the next await, and issue the command of that await.  A task's pc names *)
(* the await it is suspended on.                                           *)
(*                                                                         *)
(* Units: positions are integers in 1/AlphaDen of a rotation, alpha is the *)
(* integer alpha*AlphaDen, torques are in mN*m.  The driver reports whole  *)
(* rotations; the filter's float result is cut to 1/AlphaDen of a          *)
(* rotation.  Actuator 1 is the leader (trigger), actuator 2 the follower  *)
(* (gripper).                                                              *)
(* Widgets (button states, message boxes' windows) are not modelled; the   *)
(* handlers are callable at any time, as through the class's methods.      *)
(*                                                                         *)
(* The standalone interface (software/open_close.py, class MotorController;*)
(* software/basic_motor_gripper_control.py has the same _run, _stop, run   *)
(* and stop around a position target) is modelled beside it with variables*)
(* of its own: it is another program, driving actuator 2 alone.            *)
(***************************************************************************)
EXTENDS Integers, Sequences, FiniteSets, TLC

\* ---------------------------------------------------------------- bounds
\* Coroutines scheduled by run_coroutine_threadsafe that are alive at once.
MaxTasks == 2
\* Probe commands one homing invocation may issue.
MaxPolls == 3
\* Leader positions the driver may report, in whole rotations 0..MaxPos.
MaxPos == 1
\* Consecutive polls of the monitor that may fail.
MaxFails == 3
\* Coroutines of the standalone MotorController that are alive at once.
MaxCoros == 2

\* ------------------------------------------------------ program constants
\* Fixed-point denominator of alpha and of positions (0.95 = 19/20).
AlphaDen == 20
\* self.alpha = 0.95
InitAlpha == 19
\* float('nan'): "axis not constrained"; also "argument not given".
NaN == -1
\* None: self.prevfiltpos before it is seeded; a falsy query result.
None == -2
\* position = 7 - filtered
SpanOffset == 7 * AlphaDen
\* maximum_torque of the mirror loop's leader and follower commands (mN*m).
LeaderHoldTorque == 15
FollowerTorque == 100
\* maximum_torque of the homing probes.
TriggerProbeTorque == 30
GripperProbeTorque == 50
\* torque < -0.02 (trigger), torque > 0.03 (gripper).
TriggerTorqueLimit == -20
GripperTorqueLimit == 30
\* b'd exact 0', b'd exact 7'
TriggerReference == 0
GripperReference == 7
\* moteus.Controller(id=1), moteus.Controller(id=2)
Leader == 1
Follower == 2
\* self.controller = moteus.Controller(id=2); self.stream = moteus.Stream(self.controller)
StreamTarget == 2

\* --------------------------------------------------------------- inputs
\* Slot 0 is monitor_motors; 1..MaxTasks hold the scheduled coroutines.
TaskIds == 1..MaxTasks
Monitor == 0
\* Positions a query may report: whole rotations.
Positions == {i * AlphaDen : i \in 0..MaxPos}
\* Torques a query may report: both sides of, and exactly on, each threshold.
Torques == {-25, -20, 0, 30, 35}
\* Values typed into the alpha entry (times AlphaDen); None: not a number.
AlphaInputs == {None, -1, 0, 10, AlphaDen, AlphaDen + 1}
\* The standalone MotorController: slots of its coroutines; the velocities
\* of Open and Close (+-max_speed, in units of max_speed); the ends of the
\* max_torque spinbox (0.01 and 0.47 N*m, in mN*m).
CoroIds == 1..MaxCoros
Velocities == {-1, 1}
MaxTorques == {10, 470}

VARIABLES
    running,         \* self.running
    monitoring,      \* self.monitoring
    homing_trigger,  \* self.homing_trigger
    homing_gripper,  \* self.homing_gripper
    controllers,     \* keys of self.controllers
    prevfiltpos,     \* self.prevfiltpos
    alpha,           \* self.alpha * AlphaDen
    tasks,           \* the coroutines on self.loop, by slot
    display,         \* the values last handed to update_positions
    app,             \* "running", "quitting" (quit_app called), "exited"
    ev,              \* the Tk handler that ran last, "loop" after a coroutine step
    lastFiltered,    \* the filter's last output (the seed counts as output 0)
    motor_running,   \* MotorController.running
    coros,           \* the coroutines on MotorController.loop, by slot
    queue,           \* slots of the coroutines submitted and not yet started, in order
    wire,            \* the last command MotorController.controller was given
    called           \* the method of MotorController called last: "run", "stop"

\* The fields of MotorControlApp and of MotorController.
teleopVars == <<running, monitoring, homing_trigger, homing_gripper, controllers,
                prevfiltpos, alpha, tasks, display, app, ev, lastFiltered>>
motorVars == <<motor_running, coros, queue, wire, called>>

vars == <<running, monitoring, homing_trigger, homing_gripper, controllers,
          prevfiltpos, alpha, tasks, display, app, ev, lastFiltered,
          motor_running, coros, queue, wire, called>>

\* A command to actuator `to`.  kind: "stop", "position", "query" or "ref";
\* val: the position target or the reference value; cap: maximum_torque.
Cmd(to, kind, val, cap) == [to |-> to, kind |-> kind, val |-> val, cap |-> cap]
NoCmd == Cmd(0, "none", NaN, NaN)

\* ----------------------------------------------------------- task records
\* fn: the coroutine function; pc: the await it is suspended on;
\* exc: an exception is propagating through the finally block;
\* bound: the locals c1, c2 are assigned; position, torque, filtered: locals;
\* success: homing__trigger_success / homing__gripper_success;
\* reports: message boxes requested ("success", "error").
\* Observations of the task's own commands: cmd (the last command it issued),
\* probes (probe commands issued), nref (reference commands issued), last[a]
\* (kind of its last command to actuator a), stops[a] (stop commands to a
\* issued from its finally block), fails (the monitor's consecutive polls
\* ended by an exception of a query), readings (the leader positions
\* motor_control has read, seed included).
NoTask ==
    [fn |-> "none", pc |-> "idle", exc |-> FALSE, bound |-> FALSE,
     position |-> None, torque |-> None, filtered |-> None,
     success |-> FALSE, reports |-> {},
     cmd |-> NoCmd,
     probes |-> 0, nref |-> 0, last |-> <<"none", "none">>, stops |-> <<0, 0>>,
     fails |-> 0, readings |-> {}]

NewTask(fn) == [NoTask EXCEPT !.fn = fn, !.pc = "sched"]

Ended(r) == r.pc \in {"done", "raised"}
Free(r) == r.fn = "none" \/ Ended(r)
Live(r) == ~Free(r)

\* The task record after it issued a command to actuator a.
Sent(r, a, kind, val, cap) ==
    [r EXCEPT !.cmd = Cmd(a, kind, val, cap), !.last[a] = kind]
\* The task record after it issued a stop to a from its finally block.
SentFinalStop(r, a) ==
    [Sent(r, a, "stop", NaN, NaN) EXCEPT !.stops[a] = @ + 1]

\* A command to the standalone controller: set_stop, or set_position in
\* velocity mode with its velocity and maximum_torque.
Wire(kind, velocity, max_torque) ==
    [kind |-> kind, velocity |-> velocity, max_torque |-> max_torque]
NoCoro == [fn |-> "none", pc |-> "idle", velocity |-> 0, max_torque |-> 0]

Init ==
    /\ motor_running = FALSE
    /\ coros = [c \in CoroIds |-> NoCoro]
    /\ queue = <<>>
    /\ wire = Wire("none", 0, 0)
    /\ called = "none"
    /\ running = FALSE
    /\ monitoring = TRUE
    /\ homing_trigger = FALSE
    /\ homing_gripper = FALSE
    /\ controllers = {}
    /\ prevfiltpos = None
    /\ alpha = InitAlpha
    /\ tasks = [t \in {Monitor} \cup TaskIds |->
                  IF t = Monitor THEN NewTask("monitor_motors") ELSE NoTask]
    /\ display = <<0, 0, 0, 0>>
    /\ app = "running"
    /\ ev = "init"
    /\ lastFiltered = None

\* The process is alive: the daemon thread's coroutines can still run.
Alive == app # "exited"

\* ------------------------------------------------------------ Tk handlers
\* run_coroutine_threadsafe(coro, self.loop): the coroutine takes a slot.
FreeSlot == CHOOSE t \in TaskIds : Free(tasks[t]) /\ \A u \in TaskIds : Free(tasks[u]) => t <= u
HasFreeSlot == \E t \in TaskIds : Free(tasks[t])
Schedule(fn) == [tasks EXCEPT ![FreeSlot] = NewTask(fn)]

\* start_control without its `if not self.running` test.
start_control_unguarded ==
    /\ Alive
    /\ HasFreeSlot
    /\ running' = TRUE
    /\ tasks' = Schedule("motor_control")
    /\ ev' = "start_control"
    /\ UNCHANGED motorVars
    /\ UNCHANGED <<monitoring, homing_trigger, homing_gripper, controllers,
                   prevfiltpos, alpha, display, app, lastFiltered>>

start_control ==
    /\ Alive
    /\ IF ~running
       THEN /\ HasFreeSlot
            /\ running' = TRUE
            /\ tasks' = Schedule("motor_control")
       ELSE UNCHANGED <<running, tasks>>
    /\ ev' = "start_control"
    /\ UNCHANGED motorVars
    /\ UNCHANGED <<monitoring, homing_trigger, homing_gripper, controllers,
                   prevfiltpos, alpha, display, app, lastFiltered>>

stop_control ==
    /\ Alive
    /\ running' = FALSE
    /\ ev' = "stop_control"
    /\ UNCHANGED motorVars
    /\ UNCHANGED <<monitoring, homing_trigger, homing_gripper, controllers,
                   prevfiltpos, alpha, tasks, display, app, lastFiltered>>

\* update_alpha without its range test `0 <= new_alpha <= 1`.
update_alpha_unchecked(new_alpha) ==
    /\ Alive
    /\ alpha' = IF new_alpha # None THEN new_alpha ELSE alpha
    /\ ev' = "update_alpha"
    /\ UNCHANGED motorVars
    /\ UNCHANGED <<running, monitoring, homing_trigger, homing_gripper,
                   controllers, prevfiltpos, tasks, display, app, lastFiltered>>

\* float(entry) raising ValueError is the input None.
update_alpha(new_alpha) ==
    /\ Alive
    /\ alpha' = IF new_alpha # None /\ 0 <= new_alpha /\ new_alpha <= AlphaDen
                THEN new_alpha ELSE alpha
    /\ ev' = "update_alpha"
    /\ UNCHANGED motorVars
    /\ UNCHANGED <<running, monitoring, homing_trigger, homing_gripper,
                   controllers, prevfiltpos, tasks, display, app, lastFiltered>>

\* stop_control(), then root.destroy 100 ms later.
quit_app ==
    /\ app = "running"
    /\ running' = FALSE
    /\ app' = "quitting"
    /\ ev' = "quit_app"
    /\ UNCHANGED motorVars
    /\ UNCHANGED <<monitoring, homing_trigger, homing_gripper, controllers,
                   prevfiltpos, alpha, tasks, display, lastFiltered>>

\* root.destroy ends mainloop and main(); the daemon thread dies with the
\* process, its coroutines wherever they are suspended.
destroy ==
    /\ app = "quitting"
    /\ app' = "exited"
    /\ ev' = "destroy"
    /\ UNCHANGED motorVars
    /\ UNCHANGED <<running, monitoring, homing_trigger, homing_gripper,
                   controllers, prevfiltpos, alpha, tasks, display, lastFiltered>>

\* The home buttons: run_coroutine_threadsafe(self.home_trigger(), self.loop).
request_home_trigger ==
    /\ Alive
    /\ HasFreeSlot
    /\ tasks' = Schedule("home_trigger")
    /\ ev' = "request_home_trigger"
    /\ UNCHANGED motorVars
    /\ UNCHANGED <<running, monitoring, homing_trigger, homing_gripper,
                   controllers, prevfiltpos, alpha, display, app, lastFiltered>>

request_home_gripper ==
    /\ Alive
    /\ HasFreeSlot
    /\ tasks' = Schedule("home_gripper")
    /\ ev' = "request_home_gripper"
    /\ UNCHANGED motorVars
    /\ UNCHANGED <<running, monitoring, homing_trigger, homing_gripper,
                   controllers, prevfiltpos, alpha, display, app, lastFiltered>>

\* ------------------------------------------------- initialize_controllers
\* The moteus.Controller objects that exist for actuator a: self.controller
\* of __init__ (the one the stream is bound to) and self.controllers[a].
Handles(a) ==
    (IF a = StreamTarget THEN 1 ELSE 0) + (IF a \in controllers THEN 1 ELSE 0)

\* The handle initialize_controllers creates next, 0 when both exist.
InitPending == IF 1 \notin controllers THEN 1 ELSE IF 2 \notin controllers THEN 2 ELSE 0

\* Task t (record r) creates the missing handle and suspends on its set_stop.
initialize_controllers(t, r) ==
    LET a == InitPending IN
    /\ a # 0
    /\ controllers' = controllers \cup {a}
    /\ tasks' = [tasks EXCEPT ![t] =
                   [Sent(r, a, "stop", NaN, NaN) EXCEPT
                      !.pc = IF a = 1 THEN "init1" ELSE "init2"]]

\* The coroutine returned ("done") or raised ("raised"): its frame is gone,
\* and nothing of it but the function and the outcome is kept.
End(r, pc) == [NoTask EXCEPT !.fn = r.fn, !.pc = pc]

\* ----------------------------------------------------------- motor_control
\* The filter with the raw reading at full weight: alpha * prev + position.
Filter_Unweighted(a, prev, raw) == (a * prev + AlphaDen * raw) \div AlphaDen

\* filtered = self.alpha * self.prevfiltpos + (1 - self.alpha) * position
Filter(a, prev, raw) == (a * prev + (AlphaDen - a) * raw) \div AlphaDen

\* What motor_control stores as self.prevfiltpos at the end of an iteration.
StoredPrevious(position, filtered) == position

\* finally: await c1.set_stop() ...
MC_Finally(t, r) ==
    tasks' = [tasks EXCEPT ![t] = [SentFinalStop(r, Leader) EXCEPT !.pc = "fin1"]]

\* The loop head with `while True` in place of `while self.running`.
MC_LoopHead_Unconditional(t, r) ==
    tasks' = [tasks EXCEPT ![t] =
                [Sent(r, Leader, "position", NaN, LeaderHoldTorque) EXCEPT !.pc = "cmd1"]]

\* while self.running: state1 = await c1.set_position(nan, nan, 0.015, query)
MC_LoopHead(t, r) ==
    IF running
    THEN tasks' = [tasks EXCEPT ![t] =
                     [Sent(r, Leader, "position", NaN, LeaderHoldTorque) EXCEPT !.pc = "cmd1"]]
    ELSE MC_Finally(t, r)

\* state1 = await c1.query()
MC_Seed(t, r) ==
    tasks' = [tasks EXCEPT ![t] = [Sent(r, Leader, "query", NaN, NaN) EXCEPT !.pc = "seed"]]

\* An exception leaves the coroutine.
MC_Raise(t, r) == tasks' = [tasks EXCEPT ![t] = End(r, "raised")]

mc_begin(t) ==
    LET r == tasks[t] IN
    /\ Alive /\ r.fn = "motor_control" /\ r.pc = "sched"
    /\ IF InitPending # 0
       THEN initialize_controllers(t, r)
       ELSE MC_Seed(t, r) /\ UNCHANGED controllers
    /\ ev' = "loop"
    /\ UNCHANGED motorVars
    /\ UNCHANGED <<running, monitoring, homing_trigger, homing_gripper,
                   prevfiltpos, alpha, display, app, lastFiltered>>

\* controllers[a].set_stop() of initialize_controllers returned or raised.
mc_init(t, ok) ==
    LET r == tasks[t] IN
    /\ Alive /\ r.fn = "motor_control" /\ r.pc \in {"init1", "init2"}
    /\ IF ~ok THEN MC_Raise(t, r) /\ UNCHANGED controllers
       ELSE IF InitPending # 0 THEN initialize_controllers(t, r)
       ELSE MC_Seed(t, r) /\ UNCHANGED controllers
    /\ ev' = "loop"
    /\ UNCHANGED motorVars
    /\ UNCHANGED <<running, monitoring, homing_trigger, homing_gripper,
                   prevfiltpos, alpha, display, app, lastFiltered>>

\* c1.query() returned p or raised (line 165 is outside the try).
mc_seeded(t, ok, p) ==
    LET r == tasks[t] IN
    /\ Alive /\ r.fn = "motor_control" /\ r.pc = "seed"
    /\ IF ~ok
       THEN MC_Raise(t, r) /\ UNCHANGED <<prevfiltpos, lastFiltered>>
       ELSE /\ prevfiltpos' = p
            /\ lastFiltered' = p
            /\ MC_LoopHead(t, [r EXCEPT !.bound = TRUE, !.readings = @ \cup {p}])
    /\ ev' = "loop"
    /\ UNCHANGED motorVars
    /\ UNCHANGED <<running, monitoring, homing_trigger, homing_gripper,
                   controllers, alpha, display, app>>

\* c1.set_position returned position p or raised.
mc_led(t, ok, p) ==
    LET r == tasks[t]
        f == Filter(alpha, prevfiltpos, p)
    IN
    /\ Alive /\ r.fn = "motor_control" /\ r.pc = "cmd1"
    /\ IF ~ok
       THEN MC_Finally(t, [r EXCEPT !.exc = TRUE]) /\ UNCHANGED lastFiltered
       ELSE /\ tasks' = [tasks EXCEPT ![t] =
                           [Sent(r, Follower, "position", SpanOffset - f, FollowerTorque)
                              EXCEPT !.position = p, !.filtered = f,
                                     !.readings = @ \cup {p}, !.pc = "cmd2"]]
            /\ lastFiltered' = f
    /\ ev' = "loop"
    /\ UNCHANGED motorVars
    /\ UNCHANGED <<running, monitoring, homing_trigger, homing_gripper,
                   controllers, prevfiltpos, alpha, display, app>>

\* c2.set_position returned or raised; then self.prevfiltpos = ...; sleep.
mc_followed(t, ok) ==
    LET r == tasks[t] IN
    /\ Alive /\ r.fn = "motor_control" /\ r.pc = "cmd2"
    /\ IF ~ok
       THEN MC_Finally(t, [r EXCEPT !.exc = TRUE]) /\ UNCHANGED prevfiltpos
       ELSE /\ prevfiltpos' = StoredPrevious(r.position, r.filtered)
            /\ tasks' = [tasks EXCEPT ![t].pc = "sleep"]
    /\ ev' = "loop"
    /\ UNCHANGED motorVars
    /\ UNCHANGED <<running, monitoring, homing_trigger, homing_gripper,
                   controllers, alpha, display, app, lastFiltered>>

\* asyncio.sleep(1/1000) returned.
mc_slept(t) ==
    LET r == tasks[t] IN
    /\ Alive /\ r.fn = "motor_control" /\ r.pc = "sleep"
    /\ MC_LoopHead(t, r)
    /\ ev' = "loop"
    /\ UNCHANGED motorVars
    /\ UNCHANGED <<running, monitoring, homing_trigger, homing_gripper,
                   controllers, prevfiltpos, alpha, display, app, lastFiltered>>

\* finally: c1.set_stop() returned or raised; then await c2.set_stop().
mc_fin1(t, ok) ==
    LET r == tasks[t] IN
    /\ Alive /\ r.fn = "motor_control" /\ r.pc = "fin1"
    /\ IF ~ok
       THEN MC_Raise(t, r)
       ELSE tasks' = [tasks EXCEPT ![t] = [SentFinalStop(r, Follower) EXCEPT !.pc = "fin2"]]
    /\ ev' = "loop"
    /\ UNCHANGED motorVars
    /\ UNCHANGED <<running, monitoring, homing_trigger, homing_gripper,
                   controllers, prevfiltpos, alpha, display, app, lastFiltered>>

\* finally: c2.set_stop() returned or raised; a pending exception re-raises.
mc_fin2(t, ok) ==
    LET r == tasks[t] IN
    /\ Alive /\ r.fn = "motor_control" /\ r.pc = "fin2"
    /\ tasks' = [tasks EXCEPT ![t] = End(r, IF ok /\ ~r.exc THEN "done" ELSE "raised")]
    /\ ev' = "loop"
    /\ UNCHANGED motorVars
    /\ UNCHANGED <<running, monitoring, homing_trigger, homing_gripper,
                   controllers, prevfiltpos, alpha, display, app, lastFiltered>>

\* Ps: the positions the leader may report.
motor_control(t, Ps) ==
    \/ mc_begin(t)
    \/ \E ok \in BOOLEAN : mc_init(t, ok)
    \/ \E ok \in BOOLEAN, p \in Ps : mc_seeded(t, ok, p)
    \/ \E ok \in BOOLEAN, p \in Ps : mc_led(t, ok, p)
    \/ \E ok \in BOOLEAN : mc_followed(t, ok)
    \/ mc_slept(t)
    \/ \E ok \in BOOLEAN : mc_fin1(t, ok)
    \/ \E ok \in BOOLEAN : mc_fin2(t, ok)

\* ------------------------------------------- home_trigger and home_gripper
\* The two coroutines differ in their constants only; f names the function.
HomedActuator(f) == IF f = "home_trigger" THEN Leader ELSE Follower
\* The probing set_position without its maximum_torque argument.
ProbeTorque_Uncapped(f) == NaN

ProbeTorque(f) == IF f = "home_trigger" THEN TriggerProbeTorque ELSE GripperProbeTorque
Reference(f) == IF f = "home_trigger" THEN TriggerReference ELSE GripperReference
HomingFlag(f) == IF f = "home_trigger" THEN homing_trigger ELSE homing_gripper
SetHomingFlag(f, v) ==
    IF f = "home_trigger"
    THEN homing_trigger' = v /\ UNCHANGED homing_gripper
    ELSE homing_gripper' = v /\ UNCHANGED homing_trigger

\* The threshold tests with <= and >= in place of < and >.
Crossed_NonStrict(f, tq) ==
    /\ tq # None
    /\ IF f = "home_trigger" THEN tq <= TriggerTorqueLimit ELSE tq >= GripperTorqueLimit

\* The threshold tests on the magnitude of the torque, whatever its sign.
Crossed_Magnitude(f, tq) ==
    /\ tq # None
    /\ IF f = "home_trigger"
       THEN tq < TriggerTorqueLimit \/ tq > -TriggerTorqueLimit
       ELSE tq > GripperTorqueLimit \/ tq < -GripperTorqueLimit

\* if state and state.values[TORQUE] < -0.02   /   > 0.03
Crossed(f, tq) ==
    /\ tq # None
    /\ IF f = "home_trigger" THEN tq < TriggerTorqueLimit ELSE tq > GripperTorqueLimit

\* finally: self.homing_x = False; await c.set_stop().  With c1/c2 never
\* assigned the await raises UnboundLocalError before any command.
H_Finally(f, t, r) ==
    /\ SetHomingFlag(f, FALSE)
    /\ tasks' = [tasks EXCEPT ![t] =
                   IF r.bound
                   THEN [SentFinalStop(r, HomedActuator(f)) EXCEPT !.pc = "fin"]
                   ELSE End(r, "raised")]

\* An except clause that ends the invocation without the finally block's stop.
H_Except_NoStop(f, t, r) ==
    /\ SetHomingFlag(f, FALSE)
    /\ tasks' = [tasks EXCEPT ![t] = End(r, "raised")]

\* An except clause that requests no message box.
H_Except_Silent(f, t, r) == H_Finally(f, t, r)

\* except Exception as e: showerror(...), then the finally block.
H_Except(f, t, r) == H_Finally(f, t, [r EXCEPT !.reports = @ \cup {"error"}])

\* The probing loop with `while True` in place of `while self.homing_x`.
H_LoopHead_Unconditional(f, t, r) ==
    /\ r.probes < MaxPolls
    /\ tasks' = [tasks EXCEPT ![t] =
                   [Sent(r, HomedActuator(f), "position", NaN, ProbeTorque(f))
                      EXCEPT !.probes = @ + 1, !.pc = "probe"]]
    /\ UNCHANGED <<homing_trigger, homing_gripper>>

\* while self.homing_x: state = await c.set_position(nan, -+0.5, cap, query);
\* after the loop: if success: showinfo (never here), then finally.
H_LoopHead(f, t, r) ==
    IF HomingFlag(f)
    THEN /\ r.probes < MaxPolls
         /\ tasks' = [tasks EXCEPT ![t] =
                        [Sent(r, HomedActuator(f), "position", NaN, ProbeTorque(f))
                           EXCEPT !.probes = @ + 1, !.pc = "probe"]]
         /\ UNCHANGED <<homing_trigger, homing_gripper>>
    ELSE H_Finally(f, t, r)

\* c1, c2 = ...; await c.set_stop()  (first stop any existing motion)
H_FirstStop(f, t, r) ==
    tasks' = [tasks EXCEPT ![t] =
                [Sent(r, HomedActuator(f), "stop", NaN, NaN) EXCEPT
                   !.bound = TRUE, !.pc = "stop0"]]

\* The entry guard: if self.homing_x: return  (the finally block still runs).
H_Entry(f, t, r) ==
    IF HomingFlag(f)
    THEN H_Finally(f, t, r) /\ UNCHANGED controllers
    ELSE /\ SetHomingFlag(f, TRUE)
         /\ IF InitPending # 0
            THEN initialize_controllers(t, r)
            ELSE H_FirstStop(f, t, r) /\ UNCHANGED controllers

h_begin(f, t) ==
    LET r == tasks[t] IN
    /\ Alive /\ r.fn = f /\ r.pc = "sched"
    /\ H_Entry(f, t, r)
    /\ ev' = "loop"
    /\ UNCHANGED motorVars
    /\ UNCHANGED <<running, monitoring, prevfiltpos, alpha, display, app, lastFiltered>>

h_init(f, t, ok) ==
    LET r == tasks[t] IN
    /\ Alive /\ r.fn = f /\ r.pc \in {"init1", "init2"}
    /\ IF ~ok THEN H_Except(f, t, r) /\ UNCHANGED controllers
       ELSE IF InitPending # 0
       THEN initialize_controllers(t, r) /\ UNCHANGED <<homing_trigger, homing_gripper>>
       ELSE H_FirstStop(f, t, r) /\ UNCHANGED <<controllers, homing_trigger, homing_gripper>>
    /\ ev' = "loop"
    /\ UNCHANGED motorVars
    /\ UNCHANGED <<running, monitoring, prevfiltpos, alpha, display, app, lastFiltered>>

\* The first set_stop returned or raised; then asyncio.sleep(0.1).
h_stopped(f, t, ok) ==
    LET r == tasks[t] IN
    /\ Alive /\ r.fn = f /\ r.pc = "stop0"
    /\ IF ~ok THEN H_Except(f, t, r)
       ELSE /\ tasks' = [tasks EXCEPT ![t].pc = "pause"]
            /\ UNCHANGED <<homing_trigger, homing_gripper>>
    /\ ev' = "loop"
    /\ UNCHANGED motorVars
    /\ UNCHANGED <<running, monitoring, controllers, prevfiltpos, alpha,
                   display, app, lastFiltered>>

\* The pause or the 10 ms poll sleep returned: the loop test.
h_woke(f, t) ==
    LET r == tasks[t] IN
    /\ Alive /\ r.fn = f /\ r.pc \in {"pause", "poll"}
    /\ H_LoopHead(f, t, r)
    /\ ev' = "loop"
    /\ UNCHANGED motorVars
    /\ UNCHANGED <<running, monitoring, controllers, prevfiltpos, alpha,
                   display, app, lastFiltered>>

\* The probe's set_position returned torque tq (None: a falsy state) or raised.
h_probed(f, t, ok, tq) ==
    LET r == tasks[t] IN
    /\ Alive /\ r.fn = f /\ r.pc = "probe"
    /\ IF ~ok THEN H_Except(f, t, r)
       ELSE /\ tasks' = [tasks EXCEPT ![t] =
                           IF Crossed(f, tq)
                           THEN [Sent(r, StreamTarget, "ref", Reference(f), NaN)
                                   EXCEPT !.torque = tq, !.nref = @ + 1, !.pc = "ref"]
                           ELSE [r EXCEPT !.torque = tq, !.pc = "poll"]]
            /\ UNCHANGED <<homing_trigger, homing_gripper>>
    /\ ev' = "loop"
    /\ UNCHANGED motorVars
    /\ UNCHANGED <<running, monitoring, controllers, prevfiltpos, alpha,
                   display, app, lastFiltered>>

\* self.stream.command(b'd exact N') returned or raised; then sleep(0.1).
h_referenced(f, t, ok) ==
    LET r == tasks[t] IN
    /\ Alive /\ r.fn = f /\ r.pc = "ref"
    /\ IF ~ok THEN H_Except(f, t, r)
       ELSE /\ tasks' = [tasks EXCEPT ![t].pc = "settle"]
            /\ UNCHANGED <<homing_trigger, homing_gripper>>
    /\ ev' = "loop"
    /\ UNCHANGED motorVars
    /\ UNCHANGED <<running, monitoring, controllers, prevfiltpos, alpha,
                   display, app, lastFiltered>>

\* The settle pause returned: success = True; break; showinfo; finally.
h_settled(f, t) ==
    LET r == tasks[t] IN
    /\ Alive /\ r.fn = f /\ r.pc = "settle"
    /\ H_Finally(f, t, [r EXCEPT !.success = TRUE, !.reports = @ \cup {"success"}])
    /\ ev' = "loop"
    /\ UNCHANGED motorVars
    /\ UNCHANGED <<running, monitoring, controllers, prevfiltpos, alpha,
                   display, app, lastFiltered>>

\* finally: the last set_stop returned or raised.
h_fin(f, t, ok) ==
    LET r == tasks[t] IN
    /\ Alive /\ r.fn = f /\ r.pc = "fin"
    /\ tasks' = [tasks EXCEPT ![t] = End(r, IF ok THEN "done" ELSE "raised")]
    /\ ev' = "loop"
    /\ UNCHANGED motorVars
    /\ UNCHANGED <<running, monitoring, homing_trigger, homing_gripper,
                   controllers, prevfiltpos, alpha, display, app, lastFiltered>>

\* Ts: the torques the probed actuator may report.
homing(f, t, Ts) ==
    \/ h_begin(f, t)
    \/ \E ok \in BOOLEAN : h_init(f, t, ok)
    \/ \E ok \in BOOLEAN : h_stopped(f, t, ok)
    \/ h_woke(f, t)
    \/ \E ok \in BOOLEAN, tq \in Ts : h_probed(f, t, ok, tq)
    \/ \E ok \in BOOLEAN : h_referenced(f, t, ok)
    \/ h_settled(f, t)
    \/ \E ok \in BOOLEAN : h_fin(f, t, ok)

home_trigger(t, Ts) == homing("home_trigger", t, Ts)
home_gripper(t, Ts) == homing("home_gripper", t, Ts)

\* ---------------------------------------------------------- monitor_motors
\* The leader read the way motor_control reads it: a set_position with query.
M_Query1_Hold(r) ==
    tasks' = [tasks EXCEPT ![Monitor] =
                [Sent(r, Leader, "position", NaN, LeaderHoldTorque) EXCEPT
                   !.bound = TRUE, !.pc = "q1"]]

\* state1 = await c1.query()
M_Query1(r) ==
    tasks' = [tasks EXCEPT ![Monitor] =
                [Sent(r, Leader, "query", NaN, NaN) EXCEPT !.bound = TRUE, !.pc = "q1"]]

\* while self.monitoring: try: c1, c2 = await self.initialize_controllers()
M_LoopHead(r) ==
    IF ~monitoring
    THEN tasks' = [tasks EXCEPT ![Monitor] = End(r, "done")] /\ UNCHANGED controllers
    ELSE IF InitPending # 0
    THEN initialize_controllers(Monitor, r)
    ELSE M_Query1(r) /\ UNCHANGED controllers

\* monitor_motors without its except clause: the exception leaves the coroutine.
M_Backoff_Raises(r) == tasks' = [tasks EXCEPT ![Monitor] = End(r, "raised")]

\* except Exception: print(...); await asyncio.sleep(1.0)
M_Backoff(r) == tasks' = [tasks EXCEPT ![Monitor] = [r EXCEPT !.pc = "backoff"]]

\* The coroutine starts, or one of its sleeps returned.
mon_loop ==
    LET r == tasks[Monitor] IN
    /\ Alive /\ r.pc \in {"sched", "sleep", "backoff"}
    /\ M_LoopHead(r)
    /\ ev' = "loop"
    /\ UNCHANGED motorVars
    /\ UNCHANGED <<running, monitoring, homing_trigger, homing_gripper,
                   prevfiltpos, alpha, display, app, lastFiltered>>

mon_init(ok) ==
    LET r == tasks[Monitor] IN
    /\ Alive /\ r.pc \in {"init1", "init2"}
    /\ IF ~ok THEN M_Backoff(r) /\ UNCHANGED controllers
       ELSE IF InitPending # 0 THEN initialize_controllers(Monitor, r)
       ELSE M_Query1(r) /\ UNCHANGED controllers
    /\ ev' = "loop"
    /\ UNCHANGED motorVars
    /\ UNCHANGED <<running, monitoring, homing_trigger, homing_gripper,
                   prevfiltpos, alpha, display, app, lastFiltered>>

\* c1.query() returned (position p, torque tq; p = None: a falsy state) or
\* raised; then state2 = await c2.query().
mon_q1(ok, p, tq) ==
    LET r == tasks[Monitor] IN
    /\ Alive /\ r.pc = "q1"
    /\ IF ~ok THEN r.fails < MaxFails /\ M_Backoff([r EXCEPT !.fails = @ + 1])
       ELSE tasks' = [tasks EXCEPT ![Monitor] =
                        [Sent(r, Follower, "query", NaN, NaN) EXCEPT
                           !.position = p, !.torque = tq, !.pc = "q2"]]
    /\ ev' = "loop"
    /\ UNCHANGED motorVars
    /\ UNCHANGED <<running, monitoring, homing_trigger, homing_gripper,
                   controllers, prevfiltpos, alpha, display, app, lastFiltered>>

\* monitor_motors publishing the leader's values as soon as it has them,
\* whatever becomes of the follower's query.
mon_q2_PublishLeader(ok, p, tq) ==
    LET r == tasks[Monitor] IN
    /\ Alive /\ r.pc = "q2"
    /\ IF ~ok
       THEN r.fails < MaxFails /\ M_Backoff([r EXCEPT !.fails = @ + 1])
       ELSE tasks' = [tasks EXCEPT ![Monitor] = [r EXCEPT !.fails = 0, !.pc = "sleep"]]
    /\ display' = IF r.position = None THEN display
                  ELSE IF ok /\ p # None THEN <<r.position, p, r.torque, tq>>
                  ELSE <<r.position, display[2], r.torque, display[4]>>
    /\ ev' = "loop"
    /\ UNCHANGED motorVars
    /\ UNCHANGED <<running, monitoring, homing_trigger, homing_gripper,
                   controllers, prevfiltpos, alpha, app, lastFiltered>>

\* c2.query() returned or raised; if state1 and state2: root.after(0,
\* self.update_positions, ...); then asyncio.sleep(1/1000).
mon_q2(ok, p, tq) ==
    LET r == tasks[Monitor] IN
    /\ Alive /\ r.pc = "q2"
    /\ IF ~ok
       THEN r.fails < MaxFails /\ M_Backoff([r EXCEPT !.fails = @ + 1]) /\ UNCHANGED display
       ELSE /\ tasks' = [tasks EXCEPT ![Monitor] = [r EXCEPT !.fails = 0, !.pc = "sleep"]]
            /\ display' = IF r.position # None /\ p # None
                          THEN <<r.position, p, r.torque, tq>> ELSE display
    /\ ev' = "loop"
    /\ UNCHANGED motorVars
    /\ UNCHANGED <<running, monitoring, homing_trigger, homing_gripper,
                   controllers, prevfiltpos, alpha, app, lastFiltered>>

\* Ps, Ts: the positions and torques the monitor's queries may report.
monitor_motors(Ps, Ts) ==
    \/ mon_loop
    \/ \E ok \in BOOLEAN : mon_init(ok)
    \/ \E ok \in BOOLEAN, p \in Ps, tq \in Ts : mon_q1(ok, p, tq)
    \/ \E ok \in BOOLEAN, p \in Ps, tq \in Ts : mon_q2(ok, p, tq)

\* ------------------------------------- MotorController (open_close.py)
\* asyncio.run_coroutine_threadsafe(coro, self.loop): the coroutine takes a
\* slot and is started by the loop in the order of submission.
FreeCoro == CHOOSE c \in CoroIds : Free(coros[c]) /\ \A d \in CoroIds : Free(coros[d]) => c <= d
Submit(fn, velocity, max_torque) ==
    /\ \E c \in CoroIds : Free(coros[c])
    /\ coros' = [coros EXCEPT ![FreeCoro] =
                   [fn |-> fn, pc |-> "sched", velocity |-> velocity,
                    max_torque |-> max_torque]]
    /\ queue' = Append(queue, FreeCoro)

\* def run(self, velocity, max_torque)
run(velocity, max_torque) ==
    /\ Submit("_run", velocity, max_torque)
    /\ called' = "run"
    /\ UNCHANGED <<motor_running, wire, teleopVars>>

\* def stop(self)
stop ==
    /\ Submit("_stop", 0, 0)
    /\ called' = "stop"
    /\ UNCHANGED <<motor_running, wire, teleopVars>>

\* The coroutine ended: its outcome is kept, its parameters are not.
EndCoro(r, pc) == [NoCoro EXCEPT !.fn = r.fn, !.pc = pc]

\* self.running = False; await self.controller.set_stop()
run_begin(c) ==
    LET r == coros[c] IN
    /\ r.fn = "_run" /\ r.pc = "sched" /\ queue # <<>> /\ Head(queue) = c
    /\ queue' = Tail(queue)
    /\ motor_running' = FALSE
    /\ wire' = Wire("stop", 0, 0)
    /\ coros' = [coros EXCEPT ![c].pc = "stop0"]
    /\ UNCHANGED <<called, teleopVars>>

\* set_stop returned or raised; await asyncio.sleep(0.02)
run_stopped(c, ok) ==
    LET r == coros[c] IN
    /\ r.fn = "_run" /\ r.pc = "stop0"
    /\ coros' = [coros EXCEPT ![c] = IF ok THEN [r EXCEPT !.pc = "pause"]
                                     ELSE EndCoro(r, "raised")]
    /\ UNCHANGED <<motor_running, queue, wire, called, teleopVars>>

\* self.running = True; while self.running: await self.controller.set_position(...)
run_armed(c) ==
    LET r == coros[c] IN
    /\ r.fn = "_run" /\ r.pc = "pause"
    /\ motor_running' = TRUE
    /\ wire' = Wire("position", r.velocity, r.max_torque)
    /\ coros' = [coros EXCEPT ![c].pc = "cmd"]
    /\ UNCHANGED <<queue, called, teleopVars>>

\* set_position returned or raised; await asyncio.sleep(1/300)
run_commanded(c, ok) ==
    LET r == coros[c] IN
    /\ r.fn = "_run" /\ r.pc = "cmd"
    /\ coros' = [coros EXCEPT ![c] = IF ok THEN [r EXCEPT !.pc = "sleep"]
                                     ELSE EndCoro(r, "raised")]
    /\ UNCHANGED <<motor_running, queue, wire, called, teleopVars>>

\* The sleep returned: while self.running: set_position again, or return.
run_slept(c) ==
    LET r == coros[c] IN
    /\ r.fn = "_run" /\ r.pc = "sleep"
    /\ IF motor_running
       THEN /\ wire' = Wire("position", r.velocity, r.max_torque)
            /\ coros' = [coros EXCEPT ![c].pc = "cmd"]
       ELSE /\ coros' = [coros EXCEPT ![c] = EndCoro(r, "done")]
            /\ UNCHANGED wire
    /\ UNCHANGED <<motor_running, queue, called, teleopVars>>

\* async def _run(self, velocity, max_torque).  Oks: the outcomes a command
\* to the actuator may have (TRUE: it returns, FALSE: it raises).
_run(c, Oks) ==
    \/ run_begin(c)
    \/ \E ok \in Oks : run_stopped(c, ok)
    \/ run_armed(c)
    \/ \E ok \in Oks : run_commanded(c, ok)
    \/ run_slept(c)

\* self.running = False; await self.controller.set_stop()
stop_begin(c) ==
    LET r == coros[c] IN
    /\ r.fn = "_stop" /\ r.pc = "sched" /\ queue # <<>> /\ Head(queue) = c
    /\ queue' = Tail(queue)
    /\ motor_running' = FALSE
    /\ wire' = Wire("stop", 0, 0)
    /\ coros' = [coros EXCEPT ![c].pc = "stopping"]
    /\ UNCHANGED <<called, teleopVars>>

\* set_stop returned or raised: the coroutine ends.
stop_done(c, ok) ==
    LET r == coros[c] IN
    /\ r.fn = "_stop" /\ r.pc = "stopping"
    /\ coros' = [coros EXCEPT ![c] = EndCoro(r, IF ok THEN "done" ELSE "raised")]
    /\ UNCHANGED <<motor_running, queue, wire, called, teleopVars>>

\* async def _stop(self)
_stop(c, Oks) ==
    \/ stop_begin(c)
    \/ \E ok \in Oks : stop_done(c, ok)

\* ------------------------------------------------------- specifications
\* The standalone interface: Open, Close and Stop pressed at any moment.
StandaloneNext ==
    \/ \E v \in Velocities, mt \in MaxTorques : run(v, mt)
    \/ stop
    \/ \E c \in CoroIds : _run(c, BOOLEAN)
    \/ \E c \in CoroIds : _stop(c, BOOLEAN)

SpecStandalone == Init /\ [][StandaloneNext]_vars

\* The standalone interface with a healthy actuator on a running event loop:
\* every command returns, and a coroutine that can take a step takes it.
StandaloneLiveNext ==
    \/ \E v \in Velocities, mt \in MaxTorques : run(v, mt)
    \/ stop
    \/ \E c \in CoroIds : _run(c, {TRUE})
    \/ \E c \in CoroIds : _stop(c, {TRUE})

SpecStandaloneLive ==
    /\ Init /\ [][StandaloneLiveNext]_vars
    /\ \A c \in CoroIds : WF_vars(_run(c, {TRUE})) /\ WF_vars(_stop(c, {TRUE}))

\* The monitor up to its first query: what it does to self.controllers.
monitor_init ==
    \/ mon_loop
    \/ \E ok \in BOOLEAN : mon_init(ok)

\* The mirror session: GO, STOP and the motor_control coroutines, with the
\* leader reporting one position.
MirrorNext ==
    \/ start_control
    \/ stop_control
    \/ \E t \in TaskIds : motor_control(t, {0})
    \/ monitor_init

SpecMirror == Init /\ [][MirrorNext]_vars

\* The mirror session on a running event loop: a motor_control coroutine that
\* can take a step (its await has returned or raised) takes it.
SpecMirrorLive ==
    SpecMirror /\ \A t \in TaskIds : WF_vars(motor_control(t, {0}))

\* The filter: one mirror loop at a time (GO is pressed once the previous
\* loop has ended), every leader position and every alpha entry.
FilterNext ==
    \/ start_control /\ \A t \in TaskIds : Free(tasks[t])
    \/ stop_control
    \/ \E a \in AlphaInputs : update_alpha(a)
    \/ \E t \in TaskIds : motor_control(t, Positions)
    \/ monitor_init

SpecFilter == Init /\ [][FilterNext]_vars

\* Homing: the two home buttons and the homing coroutines, every torque.
HomingNext ==
    \/ request_home_trigger
    \/ request_home_gripper
    \/ \E t \in TaskIds : home_trigger(t, Torques \cup {None})
    \/ \E t \in TaskIds : home_gripper(t, Torques \cup {None})
    \/ monitor_init

SpecHoming == Init /\ [][HomingNext]_vars

\* Mirror loop and homing together, with one reading on each side of the
\* homing thresholds.
Next ==
    \/ start_control
    \/ stop_control
    \/ request_home_trigger
    \/ request_home_gripper
    \/ \E t \in TaskIds : motor_control(t, {0})
    \/ \E t \in TaskIds : home_trigger(t, {0, -25})
    \/ \E t \in TaskIds : home_gripper(t, {0, 35})
    \/ monitor_init

Spec == Init /\ [][Next]_vars

\* Quitting: GO and the trigger's home button while the window is up,
\* quit_app, the destroy it schedules, and the coroutines, which run until
\* the process ends.
QuitNext ==
    \/ start_control /\ app = "running"
    \/ request_home_trigger /\ app = "running"
    \/ quit_app
    \/ destroy
    \/ \E t \in TaskIds : motor_control(t, {0})
    \/ \E t \in TaskIds : home_trigger(t, {0, -25})
    \/ monitor_init

SpecQuit == Init /\ [][QuitNext]_vars

\* The monitor alone, every reading and every failure, up to the end of the
\* process.
MonitorNext ==
    \/ monitor_motors(Positions \cup {None}, Torques)
    \/ quit_app
    \/ destroy

SpecMonitor == Init /\ [][MonitorNext]_vars

\* ------------------------------------------------------------ properties
IsMirror(r) == r.fn = "motor_control"
IsHoming(r) == r.fn \in {"home_trigger", "home_gripper"}
\* The coroutine has been entered and its cleanup has not ended.
Active(r) == Live(r) /\ r.pc # "sched"
\* Task t's coroutine ends in this step.
Exits(t) == ~Ended(tasks[t]) /\ Ended(tasks'[t])
\* motor_control is inside its while loop, commanding both actuators.
Mirroring(r) == IsMirror(r) /\ r.pc \in {"cmd1", "cmd2", "sleep"}
\* A homing invocation is driving its actuator towards the hard stop.
Seeking(r) == IsHoming(r) /\ r.pc \in {"probe", "poll"}

\* C1: in every iteration of the mirror loop the filtered value is
\* alpha * (the previous iteration's filtered output) + (1 - alpha) * (the raw
\* reading), the seed being output 0, and the follower's target is
\* 7 - filtered.  (Fails: line 183 stores the raw reading.)
C1_FilterRecurrence ==
    [][\A t \in TaskIds :
         (IsMirror(tasks[t]) /\ tasks[t].pc = "cmd1" /\ tasks'[t].pc = "cmd2") =>
            /\ tasks'[t].filtered
                 = (alpha * lastFiltered + (AlphaDen - alpha) * tasks'[t].position)
                      \div AlphaDen
            /\ tasks'[t].cmd.to = Follower
            /\ tasks'[t].cmd.kind = "position"
            /\ tasks'[t].cmd.val = 7 * AlphaDen - tasks'[t].filtered]_vars

\* C2: a mirror loop that has iterated and leaves its while loop because the
\* running flag was cleared (no exception in the loop) ends having issued
\* exactly one cleanup stop to the leader and exactly one to the follower.
C2_StopExactlyOnce ==
    [][\A t \in TaskIds :
         (IsMirror(tasks[t]) /\ tasks[t].pc \in {"fin1", "fin2"}
            /\ tasks[t].position # None /\ ~tasks[t].exc /\ Exits(t)) =>
               tasks[t].stops = <<1, 1>>]_vars

\* C3: a homing coroutine entered while the homing flag of its actuator is
\* set returns without changing the flags, the handles or any other task,
\* and without issuing a command.
C3_ReentryIsNoOp ==
    [][\A t \in TaskIds :
         (IsHoming(tasks[t]) /\ tasks[t].pc = "sched"
            /\ HomingFlag(tasks[t].fn) /\ tasks'[t].pc # "sched") =>
               /\ UNCHANGED <<homing_trigger, homing_gripper, controllers>>
               /\ tasks'[t].cmd = NoCmd
               /\ \A u \in TaskIds \ {t} : tasks'[u] = tasks[u]]_vars

\* C4: once trigger homing has observed a torque below -0.02 N*m it has issued
\* exactly one reference command, with value 0, to the leader.
C4_TriggerReference ==
    \A t \in TaskIds :
       (tasks[t].fn = "home_trigger" /\ tasks[t].pc \in {"ref", "settle"}) =>
          /\ tasks[t].torque < -20
          /\ tasks[t].nref = 1
          /\ tasks[t].cmd.kind = "ref"
          /\ tasks[t].cmd.val = 0
          /\ tasks[t].cmd.to = 1

\* C5: gripper homing polls on exactly while the observed torque is not above
\* 0.03 N*m; on a torque above 0.03 N*m it issues one reference command, value
\* 7, to the follower, never a second one, and, the reference command having
\* returned, it reports success.
C5_GripperReference ==
    \A t \in TaskIds :
       LET r == tasks[t] IN
       r.fn = "home_gripper" =>
          /\ r.nref <= 1
          /\ r.pc = "poll" => (r.nref = 0 /\ (r.torque = None \/ r.torque <= 30))
          /\ r.nref = 1 => (r.torque # None /\ r.torque > 30)
          /\ r.pc \in {"ref", "settle"} =>
                (r.nref = 1 /\ r.cmd = Cmd(2, "ref", 7, NaN) /\ r.last[2] = "ref")
          /\ (r.pc = "fin" /\ r.nref = 1) =>
                (("error" \in r.reports) # (r.success /\ "success" \in r.reports))
          /\ (r.pc = "fin" /\ r.nref = 0) => ~r.success

\* Gripper homing crossed the threshold on its second poll, set the reference
\* and succeeded.
C5_Witness ==
    \E t \in TaskIds :
       /\ tasks[t].fn = "home_gripper" /\ tasks[t].pc = "fin"
       /\ tasks[t].probes = 2 /\ tasks[t].torque = 35
       /\ tasks[t].nref = 1 /\ tasks[t].success /\ tasks[t].reports = {"success"}
       /\ tasks[t].last[2] = "stop"

\* C6: no mirror loop is inside its while loop while a homing invocation is
\* driving an actuator.
C6_NoMirrorWhileHoming ==
    \A t, u \in TaskIds : ~(Mirroring(tasks[t]) /\ Seeking(tasks[u]))

\* C7: at most one motor_control coroutine is between its entry and the end
\* of its cleanup.
C7_AtMostOneLoop ==
    Cardinality({t \in TaskIds : IsMirror(tasks[t]) /\ Active(tasks[t])}) <= 1

\* C8: start_control called while running changes nothing: no coroutine is
\* scheduled, no task issues a command, running and the filter state stay.
C8_StartIdempotent ==
    [][(running /\ ev' = "start_control") =>
          UNCHANGED <<running, monitoring, homing_trigger, homing_gripper,
                      controllers, prevfiltpos, alpha, tasks, display, app,
                      lastFiltered>>]_vars

\* start_control has just run while the one mirror loop was suspended on the
\* leader command of an iteration: nothing was scheduled.
C8_Witness ==
    /\ ev = "start_control" /\ running
    /\ \E t \in TaskIds :
          /\ IsMirror(tasks[t]) /\ tasks[t].pc = "cmd1"
          /\ \A u \in TaskIds \ {t} : tasks[u] = NoTask

\* C9: a motor_control coroutine that has started ends only after a cleanup
\* stop to the leader and one to the follower, each the coroutine's last
\* command to that actuator.
C9_StopsOnEveryExit ==
    [][\A t \in TaskIds :
         (IsMirror(tasks[t]) /\ Active(tasks[t]) /\ Exits(t)) =>
            /\ tasks[t].stops[1] >= 1 /\ tasks[t].last[1] = "stop"
            /\ tasks[t].stops[2] >= 1 /\ tasks[t].last[2] = "stop"]_vars

\* C10: a homing invocation that has issued a probe ends only from its
\* finally block, its last command to the homed actuator being the stop
\* issued there.
C10_HomingStopsOnExit ==
    [][\A t \in TaskIds :
         (IsHoming(tasks[t]) /\ tasks[t].probes > 0 /\ Exits(t)) =>
            LET a == IF tasks[t].fn = "home_trigger" THEN 1 ELSE 2 IN
            /\ tasks[t].pc = "fin"
            /\ tasks[t].stops[a] = 1
            /\ tasks[t].last[a] = "stop"
            /\ tasks[t].cmd = Cmd(a, "stop", NaN, NaN)]_vars

\* A homing invocation whose reference command raised is suspended on the
\* stop of its finally block.
C10_Witness ==
    \E t \in TaskIds :
       /\ IsHoming(tasks[t]) /\ tasks[t].pc = "fin"
       /\ tasks[t].probes > 0 /\ tasks[t].nref = 1
       /\ "error" \in tasks[t].reports
       /\ tasks[t].cmd.kind = "stop"

\* C11: when the process ends after quit_app, no homing invocation is left
\* with a probe as its last command to the actuator it homes (its cleanup has
\* issued the stop).  A consequence of the claim, which says the same of the
\* mirror loop as well.
C11_QuitStopsHoming ==
    app = "exited" =>
       \A t \in TaskIds :
          (IsHoming(tasks[t]) /\ Active(tasks[t])) =>
             tasks[t].last[HomedActuator(tasks[t].fn)] # "position"

\* C12: a motor_control inside its while loop stays inside it for as long as
\* running is true, whatever the outcome of the await it resumes from.
C12_LoopSurvivesFailure ==
    [][\A t \in TaskIds :
         (Mirroring(tasks[t]) /\ running /\ running') =>
            Mirroring(tasks'[t])]_vars

\* C13: a query of the monitor that raises takes the monitor to its back-off
\* sleep; from the back-off sleep it goes on to the next poll (handle
\* creation or the leader query) with the count of failures kept; it never
\* ends while the monitoring flag is set.
C13_MonitorSurvivesFailures ==
    [][LET r == tasks[Monitor]
           n == tasks'[Monitor]
       IN
       /\ (r.pc \in {"q1", "q2"} /\ n.fails = r.fails + 1) => n.pc = "backoff"
       /\ (r.pc = "backoff" /\ n # r) =>
             (n.pc \in {"init1", "init2", "q1"} /\ n.fails = r.fails)
       /\ monitoring => (~Ended(n) /\ n.fn = "monitor_motors")]_vars

\* After MaxFails consecutive failed polls the monitor has issued the leader
\* query of the next poll.
C13_Witness ==
    /\ tasks[Monitor].fails = MaxFails
    /\ tasks[Monitor].pc = "q1"
    /\ tasks[Monitor].cmd = Cmd(1, "query", NaN, NaN)

\* C14: alpha is within [0, 1] before and after every step; an update_alpha
\* call changes nothing but alpha (not prevfiltpos, not the filter's last
\* output, no task), and alpha only to an entry within [0, 1].
C14_AlphaValidated ==
    [][/\ alpha \in 0..AlphaDen
       /\ alpha' \in 0..AlphaDen
       /\ ev' = "update_alpha" =>
             /\ UNCHANGED <<running, monitoring, homing_trigger, homing_gripper,
                            controllers, prevfiltpos, tasks, display, app,
                            lastFiltered>>
             /\ alpha' # alpha => alpha' \in (AlphaInputs \cap 0..AlphaDen)]_vars

\* update_alpha has just set alpha to 0.5 while a seeded mirror loop is
\* mid-iteration.
C14_Witness ==
    /\ ev = "update_alpha" /\ alpha = 10
    /\ prevfiltpos = AlphaDen
    /\ \E t \in TaskIds : Mirroring(tasks[t]) /\ tasks[t].filtered # None

\* C15: for each of the two homing functions at most one invocation is in
\* its probing loop.
C15_OneHomingPerActuator ==
    \A f \in {"home_trigger", "home_gripper"} :
       Cardinality({t \in TaskIds : tasks[t].fn = f /\ Seeking(tasks[t])}) <= 1

\* C16: the leader's cleanup stop of motor_control, returned or raised, is
\* followed by the follower's cleanup stop; a homing invocation whose cleanup
\* stop raised ends without an exception that it did not have before.
C16_CleanupCompletes ==
    [][\A t \in TaskIds :
         /\ (IsMirror(tasks[t]) /\ tasks[t].pc = "fin1" /\ tasks'[t] # tasks[t]) =>
               (tasks'[t].pc = "fin2" /\ tasks'[t].stops = <<1, 1>>
                  /\ tasks'[t].cmd = Cmd(2, "stop", NaN, NaN))
         /\ (IsHoming(tasks[t]) /\ tasks[t].pc = "fin" /\ tasks'[t] # tasks[t]) =>
               tasks'[t].pc = "done"]_vars

\* C17: the monitor never ends, and the only commands it issues are queries
\* and the stop that goes with the creation of a handle: no set_position, no
\* reference command, to either actuator.
C17_MonitorOnlyQueries ==
    LET r == tasks[Monitor] IN
    /\ r.fn = "monitor_motors" /\ ~Ended(r)
    /\ r.cmd.kind \in {"none", "stop", "query"}
    /\ \A a \in {1, 2} : r.last[a] \in {"none", "stop", "query"}
    /\ r.pc \in {"q1", "q2", "sleep"} => r.cmd.kind = "query"
    /\ r.probes = 0 /\ r.nref = 0 /\ r.stops = <<0, 0>>

\* The monitor has published a poll and is in its 1 ms sleep after quit_app.
C17_Witness ==
    /\ app = "quitting"
    /\ tasks[Monitor].pc = "sleep"
    /\ tasks[Monitor].cmd = Cmd(2, "query", NaN, NaN)
    /\ display = <<AlphaDen, 0, 35, -25>>

\* C18: once self.prevfiltpos has been seeded, the start-up of a later
\* motor_control (its seed query returning) leaves it as it is.
C18_FilterStatePersists ==
    [][\A t \in TaskIds :
         (IsMirror(tasks[t]) /\ tasks[t].pc = "seed" /\ tasks'[t].pc # "seed"
            /\ prevfiltpos # None) =>
               (prevfiltpos' = prevfiltpos /\ lastFiltered' = lastFiltered)]_vars

\* C19: while every position a motor_control has read, seed included, is the
\* same p, the filtered value it computed is p, the follower target it
\* commanded is 7 - p, and the filter state is p.
C19_SteadyInput ==
    \A t \in TaskIds : \A p \in Positions :
       (IsMirror(tasks[t]) /\ tasks[t].readings = {p}) =>
          /\ prevfiltpos = p
          /\ lastFiltered = p
          /\ tasks[t].filtered \in {None, p}
          /\ tasks[t].pc = "cmd2" =>
                tasks[t].cmd = Cmd(2, "position", 7 * AlphaDen - p, FollowerTorque)

\* A session that has read 1.0 only commands the follower to 6.0 with
\* alpha = 0.5.
C19_Witness ==
    \E t \in TaskIds :
       /\ IsMirror(tasks[t]) /\ tasks[t].readings = {AlphaDen}
       /\ tasks[t].pc = "cmd2" /\ tasks[t].filtered = AlphaDen
       /\ tasks[t].cmd.val = 6 * AlphaDen
       /\ alpha = 10

\* C20: for each actuator id at most one controller handle exists.
C20_OneHandlePerId ==
    \A a \in {1, 2} : Handles(a) <= 1

\* C21: while running stays false no motor_control issues a leader command,
\* a follower command is issued only by the iteration whose leader command
\* was in flight, and the seed query or the sleep is followed by the finally
\* block; if running stays false for good, every motor_control ends.
C21_BoundedCancellation ==
    /\ [][(~running /\ ~running') =>
            \A t \in TaskIds :
               LET r == tasks[t]
                   n == tasks'[t]
               IN
               IsMirror(n) =>
                  /\ n.pc = "cmd1" => r.pc = "cmd1"
                  /\ n.pc = "cmd2" => r.pc \in {"cmd1", "cmd2"}
                  /\ (r.pc \in {"seed", "sleep"} /\ n # r /\ ~Ended(n)) =>
                        (n.pc = "fin1" /\ n.cmd = Cmd(1, "stop", NaN, NaN))]_vars
    /\ <>[](~running) => <>[](\A t \in TaskIds : ~(IsMirror(tasks[t]) /\ Live(tasks[t])))

\* A loop that iterated and saw the cleared flag has issued both final stops.
C21_Witness ==
    /\ ~running /\ ev = "loop"
    /\ \E t \in TaskIds :
          /\ IsMirror(tasks[t]) /\ tasks[t].pc = "fin2"
          /\ tasks[t].filtered # None /\ ~tasks[t].exc
          /\ tasks[t].stops = <<1, 1>>

\* C22: the first follower motion command of a motor_control (the step that
\* computes its first filtered value) comes after a stop that this
\* motor_control issued to the follower.
C22_StopBeforeFirstMotion ==
    [][\A t \in TaskIds :
          (/\ IsMirror(tasks[t]) /\ tasks[t].pc = "cmd1" /\ tasks[t].filtered = None
           /\ tasks'[t].pc = "cmd2")
          => tasks[t].last[Follower] = "stop"]_vars

\* C23: a homing invocation issues its reference command on the poll whose
\* torque is beyond the threshold (below -0.02 N.m for the trigger, above
\* 0.03 N.m for the gripper) and on no other: each probe counts once, a poll
\* that does not cross goes to the next poll with nothing issued, the crossing
\* poll issues the one reference command with the probe count unchanged, and
\* after it come only the settle pause and the final stop, never a probe.
C23_ReferenceOnFirstCrossing ==
    [][\A t \in TaskIds :
          LET r == tasks[t]
              n == tasks'[t]
              beyond == /\ n.torque # None
                        /\ IF r.fn = "home_trigger" THEN n.torque < -20 ELSE n.torque > 30
          IN
          (IsHoming(r) /\ n # r /\ ~Ended(n)) =>
             /\ n.pc = "probe" => (r.nref = 0 /\ n.probes = r.probes + 1)
             /\ n.pc = "poll" => (r.pc = "probe" /\ ~beyond /\ n.nref = 0 /\ n.cmd = r.cmd)
             /\ n.pc = "ref" =>
                   /\ r.pc = "probe" /\ beyond
                   /\ r.nref = 0 /\ n.nref = 1 /\ n.probes = r.probes /\ n.probes >= 1
                   /\ n.cmd = Cmd(StreamTarget, "ref", Reference(r.fn), NaN)
             /\ r.pc = "probe" => n.pc \in {"poll", "ref", "fin"}
             /\ r.nref = 1 =>
                   /\ n.nref = 1 /\ n.probes = r.probes
                   /\ n.pc \in {"settle", "fin"}
                   /\ n.pc = "fin" => n.cmd = Cmd(HomedActuator(r.fn), "stop", NaN, NaN)]_vars

\* The trigger crossed on its third poll: three probes, one reference command,
\* the final stop issued.
C23_Witness ==
    \E t \in TaskIds :
       /\ tasks[t].fn = "home_trigger" /\ tasks[t].pc = "fin"
       /\ tasks[t].probes = 3 /\ tasks[t].nref = 1 /\ tasks[t].torque = -25
       /\ tasks[t].success /\ tasks[t].cmd = Cmd(Leader, "stop", NaN, NaN)

C25_TorqueCapOnEveryMotion ==
    \A t \in {Monitor} \cup TaskIds :
       LET r == tasks[t] IN
       r.cmd.kind = "position" =>
          /\ r.cmd.cap # NaN /\ r.cmd.cap > 0 /\ r.cmd.cap <= 100
          /\ r.fn \in {"motor_control", "home_trigger", "home_gripper"}
          /\ r.fn = "motor_control" =>
                /\ r.cmd.to \in {1, 2}
                /\ r.cmd.cap = (IF r.cmd.to = 1 THEN 15 ELSE 100)
          /\ r.fn = "home_trigger" => (r.cmd.to = 1 /\ r.cmd.cap = 30)
          /\ r.fn = "home_gripper" => (r.cmd.to = 2 /\ r.cmd.cap = 50)

\* The mirror loop is commanding the follower while a gripper homing is
\* probing the same actuator, each with its own cap.
C25_Witness ==
    \E t, u \in TaskIds :
       /\ tasks[t].fn = "motor_control" /\ tasks[t].cmd = Cmd(2, "position", SpanOffset, 100)
       /\ tasks[u].fn = "home_gripper" /\ tasks[u].cmd = Cmd(2, "position", NaN, 50)

\* C26: the displayed values change only in the step of the monitor in which
\* the follower's query returned a state after the leader's query had
\* returned one, and then all four are replaced by the values of that
\* iteration; an iteration ended by a failed query leaves all four as they
\* were.
C26_PublishOnlyWhenBothSucceed ==
    [][LET r == tasks[Monitor]
           n == tasks'[Monitor]
       IN
       /\ display' # display =>
             /\ r.pc = "q2" /\ n.pc = "sleep" /\ n.fails = 0
             /\ r.position # None
             /\ display'[1] = r.position /\ display'[3] = r.torque
             /\ display'[2] \in Positions /\ display'[4] \in Torques
       /\ (n.pc = "backoff" \/ n.fails > r.fails) => display' = display]_vars

\* Values were published and a later iteration failed: they are still shown.
C26_Witness ==
    /\ display = <<AlphaDen, 0, -25, 35>>
    /\ tasks[Monitor].pc = "backoff" /\ tasks[Monitor].fails >= 1
    /\ tasks[Monitor].position = 0

\* C27: a homing invocation requests the success box only in the step after
\* the settle pause that follows its completed reference command, requests
\* the error box in the step in which its probe or its reference command
\* raised, and never requests both.
C27_ExplicitOutcome ==
    /\ [](\A t \in TaskIds :
            IsHoming(tasks[t]) =>
               /\ tasks[t].reports \in {{}, {"success"}, {"error"}}
               /\ "success" \in tasks[t].reports =>
                     (tasks[t].nref = 1 /\ tasks[t].success /\ tasks[t].pc = "fin"))
    /\ [][\A t \in TaskIds :
            LET r == tasks[t]
                n == tasks'[t]
            IN
            (IsHoming(r) /\ n # r) =>
               /\ ("success" \in n.reports /\ "success" \notin r.reports) =>
                     (r.pc = "settle" /\ r.cmd.kind = "ref")
               /\ (r.pc \in {"probe", "ref"} /\ n.pc \notin {"poll", "ref", "settle"}) =>
                     (n.pc = "fin" /\ n.reports = {"error"} /\ ~n.success)
               /\ r.pc = "settle" => (n.pc = "fin" /\ n.reports = {"success"})]_vars

\* The reference command was issued and raised: failure reported, no success.
C27_Witness ==
    \E t \in TaskIds :
       /\ tasks[t].fn = "home_gripper" /\ tasks[t].pc = "fin"
       /\ tasks[t].nref = 1 /\ tasks[t].reports = {"error"} /\ ~tasks[t].success

\* C29: while running is True a motor_control is scheduled or active.
C29_RunningImpliesLoop ==
    running => \E t \in TaskIds : IsMirror(tasks[t]) /\ Live(tasks[t])

\* C28: when a _run coroutine of the standalone MotorController ends, the
\* last command the actuator was given is a stop.
C28_RunEndsWithStop ==
    [][\A c \in CoroIds :
          (coros[c].fn = "_run" /\ Live(coros[c]) /\ Ended(coros'[c]))
          => wire'.kind = "stop"]_vars

\* C30: if stop() is the last call made on the MotorController, then from some
\* moment on the actuator's last command is a stop and stays so.
C30_StopWins ==
    <>[](called = "stop") => <>[](wire.kind = "stop")

\* C31: at most one _run coroutine of the standalone MotorController is
\* inside its command loop (commanding, or sleeping between two commands).
C31_OneRunLoop ==
    Cardinality({c \in CoroIds :
                   coros[c].fn = "_run" /\ coros[c].pc \in {"cmd", "sleep"}}) <= 1

====
